---- MODULE Spec2Model ----
(***************************************************************************)
(* A model of src/app.js: the TodoApp component, its useLocalStorage hook  *)
(* and the handlers it wires to the rendered rows.                         *)
(*                                                                         *)
(* JavaScript values are tagged records, one field name per type, so that  *)
(* values of different types compare unequal instead of being an error:    *)
(*   [undef |-> TRUE]  [null |-> TRUE]  [num |-> n]  [bool |-> b]          *)
(*   [str |-> <<chars>>]  [arr |-> <<values>>]  [obj |-> [key |-> value]]  *)
(* A string is a sequence of one-character strings.                        *)
(***************************************************************************)
EXTENDS Integers, Sequences, FiniteSets, TLC

VARIABLES
    storage,      \* localStorage["todoapp-v1"]: Null (absent) or [raw |-> tokens]
    tasks,        \* useLocalStorage value (app.js:108): a JavaScript value
    text,         \* new-task input box (app.js:109)
    filter,       \* "all" | "active" | "done" (app.js:110)
    query,        \* search box (app.js:111)
    editingId,    \* Null or the id being edited (app.js:112)
    editingText,  \* edit box (app.js:113)
    pc,           \* "mounted", or "crashed" when a render threw (no error boundary)
    now,          \* the clock Date.now() reads
    failures,     \* environment: how many setItem calls have thrown so far
    lastOp,       \* history: the handler that ran last ("input" for the onChange
                  \* handlers and setFilter, which only set their own field)
    writes,       \* history: localStorage.setItem calls made by the last step
    writeOk       \* history: whether the most recent setItem call returned normally

vars == <<storage, tasks, text, filter, query, editingId, editingText, pc, now,
          failures, lastOp, writes, writeOk>>

---------------------------------------------------------------------------
(* Bounds *)

MaxTasks == 2      \* addTask is not taken on a list this long
MaxNow == 0        \* the clock stops here
MaxFailures == 1   \* setItem throws at most this many times

---------------------------------------------------------------------------
(* JavaScript values *)

Undefined == [undef |-> TRUE]
Null == [null |-> TRUE]
Num(n) == [num |-> n]
Bool(b) == [bool |-> b]
Str(s) == [str |-> s]
Arr(a) == [arr |-> a]
Obj(o) == [obj |-> o]

IsStr(v) == "str" \in DOMAIN v
IsArr(v) == "arr" \in DOMAIN v
IsObj(v) == "obj" \in DOMAIN v

\* JavaScript truthiness (ToBoolean), as `!val`, `!t.completed`, `raw ? :` use it
Truthy(v) ==
    IF "bool" \in DOMAIN v THEN v.bool
    ELSE IF "num" \in DOMAIN v THEN v.num # 0
    ELSE IF "str" \in DOMAIN v THEN v.str # <<>>
    ELSE IF "undef" \in DOMAIN v \/ "null" \in DOMAIN v THEN FALSE
    ELSE TRUE

\* property read o.k; a missing property reads as undefined
Get(v, k) == IF IsObj(v) /\ k \in DOMAIN v.obj THEN v.obj[k] ELSE Undefined

\* o.k throws a TypeError when o is null or undefined
ReadThrows(v) == "undef" \in DOMAIN v \/ "null" \in DOMAIN v

---------------------------------------------------------------------------
(* Strings *)

Whitespace == {" ", "\t", "\n"}

RECURSIVE TrimStart(_)
TrimStart(s) ==
    IF s # <<>> /\ Head(s) \in Whitespace THEN TrimStart(Tail(s)) ELSE s

RECURSIVE TrimEnd(_)
TrimEnd(s) ==
    IF s # <<>> /\ s[Len(s)] \in Whitespace
    THEN TrimEnd(SubSeq(s, 1, Len(s) - 1)) ELSE s

\* trim left out: the text is used as typed
trimForgotten(s) == s

\* String.prototype.trim
trim(s) == TrimEnd(TrimStart(s))

UpperToLower == [A |-> "a", B |-> "b"]

\* String.prototype.toLowerCase
toLowerCase(s) ==
    [i \in 1..Len(s) |-> IF s[i] \in DOMAIN UpperToLower THEN UpperToLower[s[i]] ELSE s[i]]

\* String.prototype.includes
includes(s, q) ==
    \E i \in 0..(Len(s) - Len(q)) : SubSeq(s, i + 1, i + Len(q)) = q

---------------------------------------------------------------------------
(* JSON text, as a sequence of tokens *)

LBrack == [p |-> "["]
RBrack == [p |-> "]"]
LBrace == [p |-> "{"]
RBrace == [p |-> "}"]
Comma == [p |-> ","]
Colon == [p |-> ":"]
Lit(v) == [lit |-> v]
Key(k) == [key |-> k]

\* the order in which addTask creates the properties (app.js:135-140); spread
\* and JSON.stringify keep insertion order
KeyOrder == <<"id", "text", "completed", "createdAt">>

RECURSIVE JSONstringify(_)
RECURSIVE StringifyElems(_, _)
RECURSIVE StringifyMembers(_, _, _)

StringifyElems(a, i) ==
    IF i > Len(a) THEN <<>>
    ELSE (IF i > 1 THEN <<Comma>> ELSE <<>>)
         \o (IF "undef" \in DOMAIN a[i] THEN <<Lit(Null)>> ELSE JSONstringify(a[i]))
         \o StringifyElems(a, i + 1)

StringifyMembers(o, i, first) ==
    IF i > Len(KeyOrder) THEN <<>>
    ELSE LET k == KeyOrder[i] IN
         IF k \in DOMAIN o /\ "undef" \notin DOMAIN o[k]
         THEN (IF first THEN <<>> ELSE <<Comma>>)
              \o <<Key(k), Colon>> \o JSONstringify(o[k])
              \o StringifyMembers(o, i + 1, FALSE)
         ELSE StringifyMembers(o, i + 1, first)

JSONstringify(v) ==
    IF IsArr(v) THEN <<LBrack>> \o StringifyElems(v.arr, 1) \o <<RBrack>>
    ELSE IF IsObj(v) THEN <<LBrace>> \o StringifyMembers(v.obj, 1, TRUE) \o <<RBrace>>
    ELSE <<Lit(v)>>

ParseFail == [ok |-> FALSE, val |-> Undefined, rest |-> <<>>]

RECURSIVE ParseValue(_)
RECURSIVE ParseElems(_, _)
RECURSIVE ParseMembers(_, _)

ParseElems(toks, acc) ==
    LET r == ParseValue(toks) IN
    IF ~r.ok \/ r.rest = <<>> THEN ParseFail
    ELSE IF Head(r.rest) = Comma THEN ParseElems(Tail(r.rest), Append(acc, r.val))
    ELSE IF Head(r.rest) = RBrack
         THEN [ok |-> TRUE, val |-> Arr(Append(acc, r.val)), rest |-> Tail(r.rest)]
    ELSE ParseFail

ParseMembers(toks, acc) ==
    IF Len(toks) < 3 \/ "key" \notin DOMAIN toks[1] \/ toks[2] # Colon THEN ParseFail
    ELSE LET r == ParseValue(SubSeq(toks, 3, Len(toks)))
             o == (toks[1].key :> r.val) @@ acc
         IN IF ~r.ok \/ r.rest = <<>> THEN ParseFail
            ELSE IF Head(r.rest) = Comma THEN ParseMembers(Tail(r.rest), o)
            ELSE IF Head(r.rest) = RBrace
                 THEN [ok |-> TRUE, val |-> Obj(o), rest |-> Tail(r.rest)]
            ELSE ParseFail

ParseValue(toks) ==
    IF toks = <<>> THEN ParseFail
    ELSE LET h == Head(toks)
             r == Tail(toks)
         IN IF "lit" \in DOMAIN h THEN [ok |-> TRUE, val |-> h.lit, rest |-> r]
            ELSE IF h = LBrack
                 THEN IF r # <<>> /\ Head(r) = RBrack
                      THEN [ok |-> TRUE, val |-> Arr(<<>>), rest |-> Tail(r)]
                      ELSE ParseElems(r, <<>>)
            ELSE IF h = LBrace
                 THEN IF r # <<>> /\ Head(r) = RBrace
                      THEN [ok |-> TRUE, val |-> Obj(<<>>), rest |-> Tail(r)]
                      ELSE ParseMembers(r, <<>>)
            ELSE ParseFail

\* JSON.parse: ok = FALSE is a SyntaxError
JSONparse(raw) ==
    LET r == ParseValue(raw) IN
    IF r.ok /\ r.rest = <<>> THEN [ok |-> TRUE, val |-> r.val] ELSE [ok |-> FALSE, val |-> Undefined]

---------------------------------------------------------------------------
(* Inputs the user can type *)

TextInputs == {<<" ">>, <<" ", "a", "b", " ">>}
EditInputs == {<<"\t", " ">>, <<"B", " ", "a", " ">>}
QueryInputs == {<<>>, <<"A", "B", " ">>}
Filters == {"all", "active", "done"}

\* Math.random().toString(36).slice(2, 8): the random part of an id
RandomSuffixes == {<<"x">>, <<"y">>}

---------------------------------------------------------------------------
(* useLocalStorage (app.js:11-26) *)

\* localStorage.getItem result is truthy: present and not the empty string
RawTruthy(store) == "raw" \in DOMAIN store /\ store.raw # <<>>

\* the stored value is read but initialValue is returned all the same
useLocalStorageInitIgnoresStored(store, initialValue) == initialValue

\* the useState initializer: raw ? JSON.parse(raw) : initialValue, and
\* initialValue when JSON.parse throws
useLocalStorageInit(store, initialValue) ==
    IF RawTruthy(store)
    THEN LET p == JSONparse(store.raw) IN IF p.ok THEN p.val ELSE initialValue
    ELSE initialValue

\* the effect without its try/catch: a throwing setItem takes the component down
useLocalStorageEffectUncaught(store, value, ok) ==
    [storage |-> IF ok THEN [raw |-> JSONstringify(value)] ELSE store,
     pc |-> IF ok THEN "mounted" ELSE "crashed",
     writes |-> 1,
     ok |-> ok]

\* the effect: try { localStorage.setItem(key, JSON.stringify(value)) } catch {}
\* ok = FALSE is setItem throwing (quota exceeded); the stored value is then kept
useLocalStorageEffect(store, value, ok) ==
    [storage |-> IF ok THEN [raw |-> JSONstringify(value)] ELSE store,
     pc |-> "mounted",
     writes |-> 1,
     ok |-> ok]

\* the dependency list [key] alone: the effect runs on mount only
EffectRunsOnMountOnly(mounting, setCalled) == mounting

\* the effect's dependency list [key, value]: it runs on mount and whenever
\* setValue was given a value that is not the same object as before; every
\* setTasks call of the component passes a freshly built array
EffectRuns(mounting, setCalled) == mounting \/ setCalled

---------------------------------------------------------------------------
(* TodoApp: derived view and rendering (app.js:124-130, 181, 264-307) *)

StatusPass(t, f) ==
    IF f = "all" THEN TRUE
    ELSE IF f = "active" THEN ~Truthy(Get(t, "completed"))
    ELSE Truthy(Get(t, "completed"))

\* the search without toLowerCase on the task text
SearchPassCaseSensitive(t, q) ==
    includes(Get(t, "text").str, toLowerCase(trim(q)))

SearchPass(t, q) ==
    includes(toLowerCase(Get(t, "text").str), toLowerCase(trim(q)))

filtered(ts, f, q) ==
    LET status(t) == StatusPass(t, f)
        search(t) == SearchPass(t, q)
    IN SelectSeq(SelectSeq(ts, status), search)

\* A render throws a TypeError when tasks has no filter method (it is not an
\* array), when an element is null (t.completed, t.text), or when an element
\* that passes the status filter has a text without toLowerCase
RenderThrows(v, f, q) ==
    \/ ~IsArr(v)
    \/ \E i \in 1..Len(v.arr) :
          \/ ReadThrows(v.arr[i])
          \/ StatusPass(v.arr[i], f) /\ ~IsStr(Get(v.arr[i], "text"))

\* the rows rendered as TaskRow (with Toggle, Edit, Delete buttons): those of
\* filtered whose id is not editingId
TaskRowIds(v, f, q, eid) ==
    LET shown == filtered(v.arr, f, q)
    IN {Get(shown[i], "id") : i \in {j \in 1..Len(shown) : Get(shown[j], "id") # eid}}

\* the edit row (input, Save, Cancel) is rendered: a row of filtered has editingId
EditRowShown(v, f, q, eid) ==
    LET shown == filtered(v.arr, f, q)
    IN \E i \in 1..Len(shown) : Get(shown[i], "id") = eid

---------------------------------------------------------------------------
(* TodoApp: the state updates of the handlers (app.js:132-175) *)

\* `${Date.now()}_${Math.random().toString(36).slice(2, 8)}`
NewId(t, rnd) == Str(<<ToString(t), "_">> \o rnd)

NewTask(val, t1, rnd, t2) ==
    Obj([id |-> NewId(t1, rnd), text |-> Str(val), completed |-> Bool(FALSE),
         createdAt |-> Num(t2)])

\* [...tasks, newTask]
addTaskUpdaterAppends(ts, newTask) == ts \o <<newTask>>

\* [newTask, ...tasks]
addTaskUpdater(ts, newTask) == <<newTask>> \o ts

\* { ...t, k: v }
Spread(t, k, v) == Obj((k :> v) @@ t.obj)

\* the toggle without its id test: every task is flipped
toggleTaskUpdaterAll(prev, id) ==
    [i \in 1..Len(prev) |->
        [obj |-> ("completed" :> Bool(~Truthy(Get(prev[i], "completed")))) @@ prev[i].obj]]

\* prev.map((t) => (t.id === id ? { ...t, completed: !t.completed } : t))
toggleTaskUpdater(prev, id) ==
    [i \in 1..Len(prev) |->
        IF Get(prev[i], "id") = id
        THEN Spread(prev[i], "completed", Bool(~Truthy(Get(prev[i], "completed"))))
        ELSE prev[i]]

\* prev.filter((t) => t.id !== id)
deleteTaskUpdater(prev, id) ==
    LET keep(t) == Get(t, "id") # id IN SelectSeq(prev, keep)

\* prev.filter((t) => !t.completed)
clearCompletedUpdater(prev) ==
    LET keep(t) == ~Truthy(Get(t, "completed")) IN SelectSeq(prev, keep)

\* the save without its id test: every task gets the text
saveEditUpdaterAll(prev, eid, val) ==
    [i \in 1..Len(prev) |-> [obj |-> ("text" :> Str(val)) @@ prev[i].obj]]

\* prev.map((t) => (t.id === editingId ? { ...t, text: val } : t))
saveEditUpdater(prev, eid, val) ==
    [i \in 1..Len(prev) |->
        IF Get(prev[i], "id") = eid THEN Spread(prev[i], "text", Str(val)) ELSE prev[i]]

\* tasks.find((x) => x.id === id): the index of the first match, 0 when none
FindIndex(ts, id) ==
    IF \E i \in 1..Len(ts) : Get(ts[i], "id") = id
    THEN CHOOSE i \in 1..Len(ts) :
            /\ Get(ts[i], "id") = id
            /\ \A j \in 1..(i - 1) : Get(ts[j], "id") # id
    ELSE 0

----------------------------------------------------------------------
---------------------------------------------------------------------------
(* Rendering after a handler, and the effect that follows the render *)

\* what a setItem call may do now: return (TRUE) or throw (FALSE)
SetItemOutcomes == IF failures < MaxFailures THEN BOOLEAN ELSE {TRUE}

\* The commit that follows a handler: the new tasks value is rendered with the
\* new filter and query; when the render does not throw, the persistence
\* effect runs if its dependencies changed.
Commit(newTasks, setCalled, ok) ==
    /\ tasks' = newTasks
    /\ IF RenderThrows(newTasks, filter', query')
       THEN /\ pc' = "crashed"
            /\ writes' = 0
            /\ UNCHANGED <<storage, writeOk, failures>>
       ELSE IF EffectRuns(FALSE, setCalled)
       THEN LET e == useLocalStorageEffect(storage, newTasks, ok)
            IN /\ storage' = e.storage
               /\ pc' = e.pc
               /\ writes' = e.writes
               /\ writeOk' = e.ok
               /\ failures' = IF ok THEN failures ELSE failures + 1
       ELSE /\ pc' = "mounted"
            /\ writes' = 0
            /\ UNCHANGED <<storage, writeOk, failures>>

\* The first render of TodoApp over a stored value, then the mount effect.
MountOutcome(store, ok) ==
    LET loaded == useLocalStorageInit(store, Arr(<<>>))
    IN IF RenderThrows(loaded, "all", <<>>)
       THEN [tasks |-> loaded, storage |-> store, pc |-> "crashed", writes |-> 0,
             wrote |-> FALSE, ok |-> FALSE]
       ELSE IF EffectRuns(TRUE, FALSE)
       THEN LET e == useLocalStorageEffect(store, loaded, ok)
            IN [tasks |-> loaded, storage |-> e.storage, pc |-> e.pc,
                writes |-> e.writes, wrote |-> TRUE, ok |-> e.ok]
       ELSE [tasks |-> loaded, storage |-> store, pc |-> "mounted", writes |-> 0,
             wrote |-> FALSE, ok |-> FALSE]

---------------------------------------------------------------------------
(* Initial states: the component mounted over a stored value *)

InitOver(store) ==
    \E ok \in BOOLEAN :
        LET m == MountOutcome(store, ok)
        IN /\ tasks = m.tasks
           /\ storage = m.storage
           /\ pc = m.pc
           /\ writes = m.writes
           /\ writeOk = m.ok
           /\ failures = IF m.wrote /\ ~m.ok THEN 1 ELSE 0
           /\ failures <= MaxFailures
           /\ text = <<>>
           /\ filter = "all"
           /\ query = <<>>
           /\ editingId = Null
           /\ editingText = <<>>
           /\ now = 0
           /\ lastOp = "mount"

\* first run in a browser that holds nothing under the key
Init == InitOver(Null)

---------------------------------------------------------------------------
(* Actions: one per handler *)

\* onChange of the new-task input (app.js:197)
SetText(s) ==
    /\ pc = "mounted"
    /\ text' = s
    /\ lastOp' = "input"
    /\ UNCHANGED <<filter, query, editingId, editingText, now>>
    /\ Commit(tasks, FALSE, TRUE)

\* setFilter(f.key) (app.js:220)
SetFilter(f) ==
    /\ pc = "mounted"
    /\ filter' = f
    /\ lastOp' = "input"
    /\ UNCHANGED <<text, query, editingId, editingText, now>>
    /\ Commit(tasks, FALSE, TRUE)

\* onChange of the search input (app.js:241)
SetQuery(q) ==
    /\ pc = "mounted"
    /\ query' = q
    /\ lastOp' = "input"
    /\ UNCHANGED <<text, filter, editingId, editingText, now>>
    /\ Commit(tasks, FALSE, TRUE)

\* addTask (app.js:132-144), from the Add button or Enter; the two Date.now()
\* calls read a clock that does not go back
AddTask ==
    /\ pc = "mounted"
    /\ lastOp' = "addTask"
    /\ LET val == trim(text) IN
       IF ~Truthy(Str(val))
       THEN /\ UNCHANGED <<text, filter, query, editingId, editingText, now>>
            /\ Commit(tasks, FALSE, TRUE)
       ELSE /\ Len(tasks.arr) < MaxTasks
            /\ \E t1 \in now..MaxNow, rnd \in RandomSuffixes, ok \in SetItemOutcomes :
                 \E t2 \in t1..MaxNow :
                    /\ now' = t2
                    /\ text' = <<>>
                    /\ UNCHANGED <<filter, query, editingId, editingText>>
                    /\ Commit(Arr(addTaskUpdater(tasks.arr, NewTask(val, t1, rnd, t2))),
                              TRUE, ok)

\* toggleTask (app.js:146-148), from a TaskRow's toggle button
ToggleTask(id) ==
    /\ pc = "mounted"
    /\ id \in TaskRowIds(tasks, filter, query, editingId)
    /\ lastOp' = "toggleTask"
    /\ UNCHANGED <<text, filter, query, editingId, editingText, now>>
    /\ \E ok \in SetItemOutcomes :
          Commit(Arr(toggleTaskUpdater(tasks.arr, id)), TRUE, ok)

\* deleteTask (app.js:150-152), from a TaskRow's Delete button
DeleteTask(id) ==
    /\ pc = "mounted"
    /\ id \in TaskRowIds(tasks, filter, query, editingId)
    /\ lastOp' = "deleteTask"
    /\ UNCHANGED <<text, filter, query, editingId, editingText, now>>
    /\ \E ok \in SetItemOutcomes :
          Commit(Arr(deleteTaskUpdater(tasks.arr, id)), TRUE, ok)

\* clearCompleted (app.js:154-156), from the Clear completed button
ClearCompleted ==
    /\ pc = "mounted"
    /\ lastOp' = "clearCompleted"
    /\ UNCHANGED <<text, filter, query, editingId, editingText, now>>
    /\ \E ok \in SetItemOutcomes :
          Commit(Arr(clearCompletedUpdater(tasks.arr)), TRUE, ok)

\* startEdit (app.js:158-163), from a TaskRow's Edit button
StartEdit(id) ==
    /\ pc = "mounted"
    /\ id \in TaskRowIds(tasks, filter, query, editingId)
    /\ LET i == FindIndex(tasks.arr, id) IN
       IF i = 0
       THEN UNCHANGED <<editingId, editingText>>
       ELSE /\ editingId' = id
            /\ editingText' = Get(tasks.arr[i], "text").str
    /\ lastOp' = "startEdit"
    /\ UNCHANGED <<text, filter, query, now>>
    /\ Commit(tasks, FALSE, TRUE)

\* onChange of the edit input (app.js:271)
SetEditingText(s) ==
    /\ pc = "mounted"
    /\ EditRowShown(tasks, filter, query, editingId)
    /\ editingText' = s
    /\ lastOp' = "input"
    /\ UNCHANGED <<text, filter, query, editingId, now>>
    /\ Commit(tasks, FALSE, TRUE)

\* saveEdit (app.js:165-175), from the Save button or Enter in the edit input
SaveEdit ==
    /\ pc = "mounted"
    /\ EditRowShown(tasks, filter, query, editingId)
    /\ editingId' = Null
    /\ editingText' = <<>>
    /\ lastOp' = "saveEdit"
    /\ UNCHANGED <<text, filter, query, now>>
    /\ LET val == trim(editingText) IN
       IF ~Truthy(Str(val))
       THEN Commit(tasks, FALSE, TRUE)
       ELSE \E ok \in SetItemOutcomes :
               Commit(Arr(saveEditUpdater(tasks.arr, editingId, val)), TRUE, ok)

\* the Cancel button or Escape in the edit input (app.js:274-277, 289-292)
CancelEdit ==
    /\ pc = "mounted"
    /\ EditRowShown(tasks, filter, query, editingId)
    /\ editingId' = Null
    /\ editingText' = <<>>
    /\ lastOp' = "cancelEdit"
    /\ UNCHANGED <<text, filter, query, now>>
    /\ Commit(tasks, FALSE, TRUE)

\* the page is closed or reloaded and the component mounts again over what
\* localStorage holds; all useState values start over
Mount ==
    \E ok \in SetItemOutcomes :
        LET m == MountOutcome(storage, ok)
        IN /\ tasks' = m.tasks
           /\ storage' = m.storage
           /\ pc' = m.pc
           /\ writes' = m.writes
           /\ writeOk' = (IF m.wrote THEN m.ok ELSE writeOk)
           /\ failures' = (IF m.wrote /\ ~m.ok THEN failures + 1 ELSE failures)
           /\ text' = <<>>
           /\ filter' = "all"
           /\ query' = <<>>
           /\ editingId' = Null
           /\ editingText' = <<>>
           /\ lastOp' = "mount"
           /\ UNCHANGED now

\* the ids a row handler can receive: those of the TaskRows on screen
RowIds == IF pc = "mounted" THEN TaskRowIds(tasks, filter, query, editingId) ELSE {}

Next ==
    \/ \E s \in TextInputs : SetText(s)
    \/ \E f \in Filters : SetFilter(f)
    \/ \E q \in QueryInputs : SetQuery(q)
    \/ AddTask
    \/ \E id \in RowIds : ToggleTask(id)
    \/ \E id \in RowIds : DeleteTask(id)
    \/ ClearCompleted
    \/ \E id \in RowIds : StartEdit(id)
    \/ \E s \in EditInputs : SetEditingText(s)
    \/ SaveEdit
    \/ CancelEdit
    \/ Mount

Spec == Init /\ [][Next]_vars

---------------------------------------------------------------------------
(* Start over values another program, or a hand edit, left under the key *)

StoredTask ==
    Obj([id |-> Str(<<"0", "_", "x">>), text |-> Str(<<"a">>), completed |-> Bool(TRUE),
         createdAt |-> Num(0)])

RawInputs ==
    { Null,                                               \* absent
      [raw |-> <<>>],                                     \* ""
      [raw |-> <<LBrack>>],                               \* "["        (SyntaxError)
      [raw |-> <<Lit(Null)>>],                            \* "null"
      [raw |-> <<LBrace, RBrace>>],                       \* "{}"
      [raw |-> <<LBrack, Lit(Null), RBrack>>],            \* "[null]"
      [raw |-> <<LBrack, LBrace, Key("id"), Colon, Lit(Str(<<"0", "_", "x">>)),
                 RBrace, RBrack>>],                       \* '[{"id":"0_x"}]'
      [raw |-> JSONstringify(Arr(<<StoredTask>>))] }      \* a well-formed list

InitLoad == \E store \in RawInputs : InitOver(store)

SpecLoad == InitLoad /\ [][Next]_vars

---------------------------------------------------------------------------
(* Vocabulary of the properties, written without the operators above *)

TaskList == tasks.arr

IsBlank(s) == \A i \in 1..Len(s) : s[i] \in {" ", "\t", "\n"}

\* s without its leading and trailing blanks
Stripped(s) ==
    IF IsBlank(s) THEN <<>>
    ELSE LET solid == {i \in 1..Len(s) : s[i] \notin {" ", "\t", "\n"}}
             lo == CHOOSE i \in solid : \A j \in solid : i <= j
             hi == CHOOSE i \in solid : \A j \in solid : j <= i
         IN [k \in 1..(hi - lo + 1) |-> s[lo + k - 1]]

\* the elements of seq at the indices in K, in the order of seq
Pick(seq, K) ==
    LET Rank(i) == Cardinality({j \in K : j <= i})
    IN [n \in 1..Cardinality(K) |-> seq[CHOOSE i \in K : Rank(i) = n]]

IdOf(t) == t.obj.id
TextOf(t) == t.obj.text.str
Done(t) == t.obj.completed.bool

\* a record of the shape the spec gives a Task
WellFormedTask(t) ==
    /\ DOMAIN t = {"obj"}
    /\ DOMAIN t.obj = {"id", "text", "completed", "createdAt"}
    /\ DOMAIN t.obj.id = {"str"} /\ t.obj.id.str # <<>>
    /\ DOMAIN t.obj.text = {"str"}
    /\ DOMAIN t.obj.completed = {"bool"}
    /\ DOMAIN t.obj.createdAt = {"num"}

WellFormedList(v) ==
    /\ DOMAIN v = {"arr"}
    /\ \A i \in 1..Len(v.arr) : WellFormedTask(v.arr[i])

\* what each handler is to do to the list, given the list before and after
PostAdd(before, after, raw) ==
    /\ Len(after) = Len(before) + 1
    /\ TextOf(after[1]) = Stripped(raw)
    /\ Done(after[1]) = FALSE
    /\ \A i \in 1..Len(before) : after[i + 1] = before[i]

PostToggle(before, after, id) ==
    /\ Len(after) = Len(before)
    /\ \A i \in 1..Len(before) :
          IF IdOf(before[i]) = id
          THEN after[i] = [before[i] EXCEPT !.obj.completed = Bool(~Done(before[i]))]
          ELSE after[i] = before[i]

PostEdit(before, after, id, raw) ==
    /\ Len(after) = Len(before)
    /\ \A i \in 1..Len(before) :
          IF IdOf(before[i]) = id
          THEN after[i] = [before[i] EXCEPT !.obj.text = Str(Stripped(raw))]
          ELSE after[i] = before[i]

PostDelete(before, after, id) ==
    after = Pick(before, {i \in 1..Len(before) : IdOf(before[i]) # id})

PostClear(before, after) ==
    after = Pick(before, {i \in 1..Len(before) : ~Done(before[i])})

---------------------------------------------------------------------------
(* C5 *)

\* C5: for every input whose trimmed text s is non-empty, addTask makes the
\* list one longer, puts the new task first with text s and completed false,
\* and keeps the earlier tasks after it, unchanged and in the same order.
C5_AddPrepends ==
    [][(AddTask /\ ~IsBlank(text)) => PostAdd(TaskList, TaskList', text)]_vars

\* an add of " a " onto a list that already held a task
C5_Witness ==
    /\ lastOp = "addTask" /\ writes = 1
    /\ Len(TaskList) = 2
    /\ TextOf(TaskList[1]) = <<"a", "b">>
    /\ Done(TaskList[2])

---------------------------------------------------------------------------
(* C6 *)

NoBlankText == \A i \in 1..Len(TaskList) : ~IsBlank(TextOf(TaskList[i]))

\* C6: addTask on an empty or whitespace-only input, and saveEdit on an empty
\* or whitespace-only edit text, leave the task list unchanged; no task in the
\* list ever has an empty or whitespace-only text.
C6_BlankIsNoOp ==
    /\ [][/\ (AddTask /\ IsBlank(text)) => tasks' = tasks
          /\ (SaveEdit /\ IsBlank(editingText)) => tasks' = tasks]_vars
    /\ []NoBlankText

\* a whitespace-only add has just run on a list that holds a task
C6_Witness ==
    /\ lastOp = "addTask" /\ writes = 0
    /\ text = <<" ">>
    /\ Len(TaskList) = 1

---------------------------------------------------------------------------
(* C7 *)

\* ids no task of the list has
AbsentIds == {Str(<<"9", "_", "z">>), Null, Undefined}

\* C7: toggleTask flips the completed flag of the tasks with the given id and
\* nothing else, saveEdit replaces the text of the tasks with editingId and
\* nothing else, deleteTask removes the tasks with the given id and nothing
\* else; the other tasks keep their fields and order, and with an id no task
\* has each of the three updates returns the list unchanged.
C7_OnlyMatchingTaskChanges ==
    /\ [][/\ \A id \in RowIds :
                /\ ToggleTask(id) => PostToggle(TaskList, TaskList', id)
                /\ DeleteTask(id) => PostDelete(TaskList, TaskList', id)
          /\ (SaveEdit /\ ~IsBlank(editingText))
                => PostEdit(TaskList, TaskList', editingId, editingText)]_vars
    /\ [](\A id \in AbsentIds :
             /\ toggleTaskUpdater(TaskList, id) = TaskList
             /\ deleteTaskUpdater(TaskList, id) = TaskList
             /\ saveEditUpdater(TaskList, id, <<"A">>) = TaskList)

\* a toggle has just completed one of two tasks with different ids
C7_Witness ==
    /\ lastOp = "toggleTask"
    /\ Len(TaskList) = 2
    /\ IdOf(TaskList[1]) # IdOf(TaskList[2])
    /\ Done(TaskList[1]) /\ ~Done(TaskList[2])

---------------------------------------------------------------------------
(* C8 *)

Fold(c) == IF c = "A" THEN "a" ELSE IF c = "B" THEN "b" ELSE c

\* q occurs in s, letter case aside
OccursIn(q, s) ==
    \E off \in 0..(Len(s) - Len(q)) : \A j \in 1..Len(q) : Fold(s[off + j]) = Fold(q[j])

Shown(t, f, q) ==
    /\ \/ f = "all"
       \/ f = "active" /\ ~Done(t)
       \/ f = "done" /\ Done(t)
    /\ OccursIn(Stripped(q), TextOf(t))

QueryProbes ==
    {<<>>, <<" ">>, <<"\t", " ">>, <<"b">>, <<"B">>, <<" ", "A", "b">>, <<"b", " ", "A", " ">>,
     <<"b", "a">>, <<"a", " ", "b">>}

\* C8: the displayed list is exactly the tasks that pass both the status filter
\* and the case-insensitive, trimmed search, in list order; with filter "all"
\* and an empty query it is the list itself; choosing a filter or typing a
\* query changes neither the list nor what is stored.
C8_ProjectionIsConjunctiveFilter ==
    /\ [](/\ \A f \in Filters, q \in QueryProbes \cup QueryInputs :
                filtered(TaskList, f, q)
                  = Pick(TaskList, {i \in 1..Len(TaskList) : Shown(TaskList[i], f, q)})
          /\ filtered(TaskList, "all", <<>>) = TaskList)
    /\ [][((\E f \in Filters : SetFilter(f)) \/ (\E q \in QueryInputs : SetQuery(q)))
            => tasks' = tasks /\ storage' = storage]_vars

\* "AB " typed into the search with the Active filter on: of a completed "ab"
\* and an active "ab" only the active one is displayed
C8_Witness ==
    /\ filter = "active" /\ query = <<"A", "B", " ">>
    /\ Len(TaskList) = 2
    /\ TextOf(TaskList[1]) = <<"a", "b">> /\ Done(TaskList[1])
    /\ TextOf(TaskList[2]) = <<"a", "b">> /\ ~Done(TaskList[2])
    /\ filtered(TaskList, filter, query) = <<TaskList[2]>>

---------------------------------------------------------------------------
(* C1 *)

\* a step of a handler that changes the list
MutatingStep ==
    \/ AddTask /\ ~IsBlank(text)
    \/ \E id \in RowIds : ToggleTask(id) \/ DeleteTask(id)
    \/ ClearCompleted
    \/ SaveEdit /\ ~IsBlank(editingText)

\* a step of a handler that leaves the list alone
NonMutatingStep ==
    \/ \E s \in TextInputs : SetText(s)
    \/ \E f \in Filters : SetFilter(f)
    \/ \E q \in QueryInputs : SetQuery(q)
    \/ \E id \in RowIds : StartEdit(id)
    \/ \E s \in EditInputs : SetEditingText(s)
    \/ CancelEdit
    \/ AddTask /\ IsBlank(text)
    \/ SaveEdit /\ IsBlank(editingText)

\* what is stored under the key is the serialisation of list v
Holds(store, v) ==
    /\ "raw" \in DOMAIN store
    /\ JSONparse(store.raw).ok
    /\ JSONparse(store.raw).val = v

\* C1: every add, toggle, edit, delete and clearCompleted that changes the list
\* makes exactly one setItem call, and the call that returns normally has
\* stored the full new list.
C1_OneWritePerMutation ==
    [][MutatingStep => /\ writes' = 1
                       /\ writeOk' => Holds(storage', tasks')]_vars

\* a toggle has just completed the only task and its one write stored the list
C1_Witness ==
    /\ lastOp = "toggleTask" /\ writes = 1 /\ writeOk
    /\ Len(TaskList) = 1 /\ Done(TaskList[1])
    /\ Holds(storage, tasks)

---------------------------------------------------------------------------
(* C3 *)

\* C3: while the last setItem call returned normally the stored snapshot is
\* the list in memory, and the next session then starts with that list, in
\* order and content.
C3_RoundTrip ==
    /\ [](writeOk => Holds(storage, tasks))
    /\ [][(Mount /\ writeOk) => tasks' = tasks /\ pc' = "mounted"]_vars

\* a reload has brought back a list of two tasks, one edited, one completed
C3_Witness ==
    /\ lastOp = "mount"
    /\ Len(TaskList) = 2
    /\ TextOf(TaskList[1]) = <<"B", " ", "a">>
    /\ Done(TaskList[2])
    /\ Holds(storage, tasks)

---------------------------------------------------------------------------
(* C4 *)

\* C4: when setItem throws, the step still ends with the component mounted,
\* the list the handler produced in memory and the stored value untouched; a
\* handler that leaves the list alone makes no setItem call (nothing is
\* retried), and the component stays mounted throughout.
C4_WriteFailureSwallowed ==
    /\ [][(writes' = 1 /\ ~writeOk') =>
            /\ pc' = "mounted"
            /\ storage' = storage
            /\ (AddTask => PostAdd(TaskList, TaskList', text))
            /\ \A id \in RowIds :
                  /\ ToggleTask(id) => PostToggle(TaskList, TaskList', id)
                  /\ DeleteTask(id) => PostDelete(TaskList, TaskList', id)
            /\ (ClearCompleted => PostClear(TaskList, TaskList'))
            /\ (SaveEdit => PostEdit(TaskList, TaskList', editingId, editingText))]_vars
    /\ [][NonMutatingStep => writes' = 0 /\ storage' = storage /\ tasks' = tasks]_vars
    /\ [](pc = "mounted")

\* a delete whose setItem threw: one task in memory, two still stored
C4_Witness ==
    /\ lastOp = "deleteTask" /\ writes = 1 /\ ~writeOk
    /\ Len(TaskList) = 1
    /\ "raw" \in DOMAIN storage
    /\ Len(JSONparse(storage.raw).val.arr) = 2

---------------------------------------------------------------------------
(* C9 *)

\* editingId stops naming the task it named
LeavesEditing == editingId # Null /\ editingId' # editingId

\* C9 as stated: within a session, editing is left through save or cancel only.
C9_OnlySaveOrCancelLeaveEditing ==
    [][(LeavesEditing /\ ~Mount) => (SaveEdit \/ CancelEdit)]_vars

\* C9 as amended: editingId leaves a task through saveEdit, which commits the
\* trimmed text to the tasks with that id, or discards it when it is blank;
\* through cancel, which discards it; through startEdit on another displayed
\* row, which discards it and starts editing that row; or through a reload.
\* Every way but the committing save leaves the list as it was.
C9_WaysOutOfEditing ==
    [][LeavesEditing =>
          \/ /\ SaveEdit /\ ~IsBlank(editingText)
             /\ PostEdit(TaskList, TaskList', editingId, editingText)
             /\ editingId' = Null
          \/ SaveEdit /\ IsBlank(editingText) /\ tasks' = tasks /\ editingId' = Null
          \/ CancelEdit /\ tasks' = tasks /\ editingId' = Null
          \/ \E id \in RowIds : StartEdit(id) /\ editingId' = id /\ tasks' = tasks
          \/ Mount]_vars

\* a save has just committed "B a" to one of two tasks and ended the edit
C9_Witness ==
    /\ lastOp = "saveEdit" /\ writes = 1
    /\ editingId = Null /\ editingText = <<>>
    /\ Len(TaskList) = 2
    /\ TextOf(TaskList[1]) = <<"B", " ", "a">>
    /\ TextOf(TaskList[2]) = <<"a", "b">>

---------------------------------------------------------------------------
(* C10 *)

\* C10: whenever editingId is not null, a task of the list has that id.
C10_EditingIdNamesATask ==
    editingId # Null => \E i \in 1..Len(TaskList) : IdOf(TaskList[i]) = editingId

---------------------------------------------------------------------------
(* C2 *)

\* C2: whatever is stored under the key, the component is mounted after the
\* load, never crashed, and the loaded value is a well-formed task list (the
\* stored one, or the empty one when the stored value is absent, unparsable
\* or of another shape).
C2_LoadNeverFails ==
    /\ pc # "crashed"
    /\ lastOp = "mount" => WellFormedList(tasks)

====
